---- MODULE Spec2Model ----
(***************************************************************************)
(* Model of the workflow orchestration of fastmcp-user-crud/               *)
(* user_crud_server.py: run_bot launches a remote bot execution, polls it  *)
(* with wait_for_bot_completion, fetches the per-node results with         *)
(* get_node_results and returns a report or a formatted error.             *)
(*                                                                         *)
(* One step of the model is what the coroutine does between two            *)
(* suspension points (an awaited HTTP call or an awaited sleep): the       *)
(* remote response is the input of the step.                               *)
(***************************************************************************)
EXTENDS Integers, Sequences, FiniteSets, TLC

\* ---------------------------------------------------------------- bounds
\* Largest attempt budget (max_retries) the model explores; run_bot itself
\* passes the default of 60, the poller takes any budget.
MaxRetries == 3
\* Largest number of keys of a "results" map in a status response.
MaxKeys == 3

\* Largest number of users created in the registry.
MaxUsers == 2

\* Attempt budget of each of two interleaved runs.
TwoRunRetries == 2

\* poll_interval: int = 5
PollInterval == 5

\* ------------------------------------------------------- python values
\* None, also the value of dict.get for a missing key.
NoneVal == "<None>"
\* Python truthiness of the string-or-None values of the model.
Truthy(x) == x \notin {NoneVal, ""}
\* a or b
PyOr(a, b) == IF Truthy(a) THEN a ELSE b

\* -------------------------------------------------------- remote inputs
\* Values of the "state" / "status" fields of a status response.
StateTags == {NoneVal, "RUNNING", "PENDING", "QUEUED", "SUCCEEDED",
              "COMPLETED", "FAILED", "PAUSED"}
StatusTags == {NoneVal, "SUCCEEDED", "FAILED"}
\* Values of the "errors" field: missing, empty, or a detail.
ErrorPayloads == {NoneVal, "", "boom"}
\* Keys of a "results" map; a map is the sequence of its keys in insertion
\* order (a dict has no duplicate key).
NodeKeys == {"start", "end", "step1", "step2"}
ResultMaps == {s \in UNION {[1..n -> NodeKeys] : n \in 0..MaxKeys} :
                 \A i, j \in 1..Len(s) : i # j => s[i] # s[j]}
\* The "results" field: missing, null, or a map.
ResultFields == {[tag |-> "absent", keys |-> <<>>], [tag |-> "null", keys |-> <<>>]}
                  \cup {[tag |-> "map", keys |-> m] : m \in ResultMaps}

\* state = data.get("state") or data.get("status")
EffectiveState(d) == PyOr(d.state, d.status)

\* The JSON bodies a status fetch can deliver. A body carries an error
\* payload only when it reports FAILED and a results field only when it
\* reports success: the code reads neither in any other case.
StatusBodies == {d \in [state : StateTags, status : StatusTags,
                        errors : ErrorPayloads, results : ResultFields] :
                   /\ d.errors # NoneVal => EffectiveState(d) = "FAILED"
                   /\ d.results.tag # "absent" =>
                        EffectiveState(d) \in {"SUCCEEDED", "COMPLETED"}}
NoBody == [state |-> NoneVal, status |-> NoneVal, errors |-> NoneVal,
           results |-> [tag |-> "absent", keys |-> <<>>]]

\* Outcome of one awaited HTTP call: a 2xx response with a JSON body, an
\* httpx.HTTPError (timeout, connection error, or raise_for_status on a
\* non-2xx response), or a 2xx response whose body is not JSON.
StatusResponses == {[kind |-> "ok", body |-> d] : d \in StatusBodies}
                     \cup {[kind |-> "HTTPError", body |-> NoBody],
                           [kind |-> "ValueError", body |-> NoBody]}

\* The launch response: execution["_id"] of a 2xx JSON body (possibly the
\* empty string), a body without "_id", an HTTPError, or a non-JSON body.
LaunchResponses == {[kind |-> "ok", id |-> i] : i \in {"", "exec1"}}
                     \cup {[kind |-> "KeyError", id |-> NoneVal],
                           [kind |-> "HTTPError", id |-> NoneVal],
                           [kind |-> "ValueError", id |-> NoneVal]}

\* One node-result fetch: a payload, an HTTPError, or a non-JSON body.
NodeResponses == {[kind |-> "ok", val |-> "payload"],
                  [kind |-> "HTTPError", val |-> "http error"],
                  [kind |-> "ValueError", val |-> NoneVal]}

VARIABLES
  pc,                 \* suspension point of run_bot
  max_retries,        \* wait_for_bot_completion's attempt budget
  execution_id,       \* execution["_id"]
  attempt,            \* loop variable of the poll loop
  status_log,         \* outcome of each status fetch so far, in order
  sleeps,             \* number of asyncio.sleep calls awaited
  data,               \* the poll loop's data = resp.json()
  final_result,       \* what wait_for_bot_completion returned to run_bot
  poll_out,           \* how wait_for_bot_completion ended
  state,              \* run_bot's state = final_result.get("state")
  intermediate_nodes, \* filter_intermediate_nodes(all_results)
  all_results,        \* final_result.get("results", {})
  node_log,           \* the node fetches so far: name and outcome, in order
  node_results,       \* get_node_results' dict
  result,             \* what run_bot returned
  requests,           \* the HTTP calls answered so far, in order
  open_clients,       \* the httpx.AsyncClient objects inside their async with
  in_flight,          \* node names whose result fetch is awaited
  users_db,           \* users_db: Dict[str, dict]
  uuids_issued,       \* how many uuid4 values create_user has drawn
  created_ids,        \* ids create_user has returned
  deleted_ids,        \* ids delete_user has removed
  last_call,          \* the last registry tool call and how it ended
  runs,               \* the locals of each of two interleaved run_bot calls
  jobs,               \* the remote's executions: the final state of each
  launched            \* the identifier the remote returned to each run

vars == <<pc, max_retries, execution_id, attempt, status_log, sleeps, data,
          final_result, poll_out, state, intermediate_nodes, all_results, node_log,
          node_results, result, requests, open_clients, in_flight, users_db,
          uuids_issued, created_ids, deleted_ids, last_call, runs, jobs,
          launched>>

\* The state of two interleaved runs and of the remote they talk to.
twoVars == <<runs, jobs, launched>>

\* The registry and the record of the calls made on it.
userVars == <<users_db, uuids_issued, created_ids, deleted_ids, last_call>>

\* ------------------------------------------------- wait_for_bot_completion
\* A poller that does not know COMPLETED.
IsSuccess_OnlySucceeded(st) == st = "SUCCEEDED"
\* A poller that returns the snapshot of a failed job as well.
IsSuccess_AlsoFailed(st) == st \in {"SUCCEEDED", "COMPLETED", "FAILED"}
\* state in ["SUCCEEDED", "COMPLETED"]
IsSuccess(st) == st \in {"SUCCEEDED", "COMPLETED"}
\* A poller that takes every state but the in-progress ones for a failure.
IsFailed_NotInProgress(st) == st \notin {"RUNNING", "PENDING", "QUEUED"}
\* A poller that does not know FAILED.
IsFailed_Never(st) == FALSE
\* state == "FAILED"
IsFailed(st) == st = "FAILED"
\* state in ["RUNNING", "PENDING", "QUEUED"]
IsInProgress(st) == st \in {"RUNNING", "PENDING", "QUEUED"}
\* The payload without the fallback.
FailureDetail_NoFallback(d) == d.errors
\* errors = data.get('errors') or 'Unknown error'
FailureDetail(d) == PyOr(d.errors, "Unknown error")
\* A poll loop without the except clause.
PollerCatches_Nothing(exc) == FALSE
\* except httpx.HTTPError: the exceptions the poll loop swallows.
PollerCatches(exc) == exc = "HTTPError"
\* range(max_retries + 1)
LoopContinues_OneMore(a, n) == a <= n
\* for attempt in range(max_retries): is there an iteration number a?
LoopContinues(a, n) == a < n
\* max_retries * poll_interval, the figure of the TimeoutError message.
TimeoutSeconds(n) == n * PollInterval

\* What one status fetch was, as the remote produced it (a record of the
\* input, kept for the properties; the code does not read it).
Observed(r) ==
  IF r.kind # "ok" THEN r.kind
  ELSE LET st == IF r.body.state \in {NoneVal, ""} THEN r.body.status
                 ELSE r.body.state
       IN CASE st \in {"SUCCEEDED", "COMPLETED"} -> "success"
            [] st = "FAILED" -> "failed"
            [] st \in {"RUNNING", "PENDING", "QUEUED"} -> "inprogress"
            [] OTHER -> "unrecognized"

NoOutcome == [kind |-> "none", detail |-> NoneVal, secs |-> 0]
Returned == [kind |-> "return", detail |-> NoneVal, secs |-> 0]
Raised(exc, detail, secs) == [kind |-> exc, detail |-> detail, secs |-> secs]

\* --------------------------------------------------------- the aggregator
\* node_results = {}
EmptyDict == [n \in {} |-> [kind |-> "payload", val |-> NoneVal]]
\* node_results = {node_name: value}
DictSet_Overwrite(m, name, v) == [n \in {name} |-> v]
\* node_results[node_name] = value
DictSet(m, name, v) ==
  [n \in DOMAIN m \cup {name} |-> IF n = name THEN v ELSE m[n]]
\* A node loop without the except clause.
NodeCatches_Nothing(exc) == FALSE
\* except httpx.HTTPError in get_node_results.
NodeCatches(exc) == exc = "HTTPError"
\* resp.json() on success, {"error": str(e)} on a caught failure.
NodeEntry(r) == IF r.kind = "ok" THEN [kind |-> "payload", val |-> r.val]
                ELSE [kind |-> "error", val |-> r.val]

\* A filter that forgets the "end" sentinel.
IsSentinel_StartOnly(k) == k = "start"
\* node_name not in ["start", "end"] (negated)
IsSentinel(k) == k \in {"start", "end"}
\* filter_intermediate_nodes(results): [] for a falsy argument (None or an
\* empty dict), else the keys that are not sentinels, in the dict's order.
filter_intermediate_nodes(results) ==
  IF results.tag # "map" \/ results.keys = <<>> THEN <<>>
  ELSE SelectSeq(results.keys, LAMBDA k : ~IsSentinel(k))

\* ----------------------------------------------------------------- run_bot
\* final_result.get("results", {})
GetResults(d) == IF d.results.tag = "absent" THEN [tag |-> "map", keys |-> <<>>]
                 ELSE d.results

NoResult == [kind |-> "none", success |-> FALSE, execution_id |-> NoneVal,
             state |-> NoneVal, total_intermediate_nodes |-> 0,
             node_results |-> EmptyDict, full_execution_data |-> NoBody,
             exc |-> NoneVal, detail |-> NoneVal, secs |-> 0]
\* The function ran off its end: Python returns None.
ReturnsNone == [NoResult EXCEPT !.kind = "None"]
\* return json.dumps({"success": True, ...})
Report(id, st, nodes, nres, d) ==
  [NoResult EXCEPT !.kind = "report", !.success = TRUE, !.execution_id = id,
                   !.state = st, !.total_intermediate_nodes = Len(nodes),
                   !.node_results = nres, !.full_execution_data = d]
\* A handler that drops str(e).
FormattedError_NoDetail(e) == [NoResult EXCEPT !.kind = "error", !.exc = e.kind]
\* except Exception as e: return f"Error triggering bot: {str(e)}"
FormattedError(e) ==
  [NoResult EXCEPT !.kind = "error", !.exc = e.kind, !.detail = e.detail,
                   !.secs = e.secs]
\* The exception leaves run_bot: the caller of the tool gets the fault.
Uncaught(e) == [NoResult EXCEPT !.kind = "raised", !.exc = e.kind]
\* A handler that catches the HTTP errors only.
RunBotCatches_OnlyHTTPError(exc) == exc = "HTTPError"
\* except Exception: the classes raised in the try block that derive from
\* Exception (asyncio.CancelledError derives from BaseException).
RunBotCatches(exc) ==
  exc \in {"HTTPError", "KeyError", "ValueError", "RuntimeError", "TimeoutError"}
\* An exception e reaches the try block of run_bot.
RunBotExcept(e) == IF RunBotCatches(e.kind) THEN FormattedError(e)
                   ELSE Uncaught(e)

\* async with httpx.AsyncClient(...) as client: entering the block.
OpenClient(open, c) == open \cup {c}
\* An exit that forgets to close the client.
CloseClient_Leak(open, c) == open
\* Leaving the async with block, by return, exception or cancellation.
CloseClient(open, c) == open \ {c}

\* A loop that starts every remaining fetch at once.
IssuedAt_AllRemaining(nodes, k) == {nodes[j] : j \in (k + 1)..Len(nodes)}
\* for node_name in node_names: resp = await client.get(url). The fetch
\* awaited once k of the names are done.
IssuedAt(nodes, k) == {nodes[k + 1]}

\* One entry of the log of HTTP calls.
Request(kind, id, name) == [kind |-> kind, id |-> id, name |-> name]

\* run_bot without the check of the state.
RunBotReturn_Unchecked(id, st, nodes, nres, d) == Report(id, st, nodes, nres, d)
\* if state == "COMPLETED" or state == "SUCCEEDED": return json.dumps(...)
RunBotReturn(id, st, nodes, nres, d) ==
  IF st = "COMPLETED" \/ st = "SUCCEEDED" THEN Report(id, st, nodes, nres, d)
  ELSE ReturnsNone

\* No registry tool has been called yet.
NoCall == [op |-> "none", id |-> 0, found |-> FALSE, outcome |-> "none",
           changed |-> FALSE, count |-> 0]
\* users_db: Dict[str, dict] = {}
InitUsers ==
  /\ users_db = [k \in {} |-> [id |-> 0, name |-> NoneVal, email |-> NoneVal,
                               role |-> NoneVal]]
  /\ uuids_issued = 0
  /\ created_ids = {}
  /\ deleted_ids = {}
  /\ last_call = NoCall

\* No pair of interleaved runs is being looked at.
NoTwoRuns ==
  /\ runs = <<>>
  /\ jobs = <<>>
  /\ launched = <<>>

\* run_bot has been called and awaits the launch response.
Init ==
  /\ InitUsers
  /\ NoTwoRuns
  /\ pc = "launch"
  /\ max_retries \in 0..MaxRetries
  /\ execution_id = NoneVal
  /\ attempt = 0
  /\ status_log = <<>>
  /\ sleeps = 0
  /\ data = NoBody
  /\ final_result = NoBody
  /\ poll_out = NoOutcome
  /\ state = NoneVal
  /\ intermediate_nodes = <<>>
  /\ all_results = [tag |-> "absent", keys |-> <<>>]
  /\ node_log = <<>>
  /\ node_results = EmptyDict
  /\ result = NoResult
  /\ requests = <<>>
  /\ open_clients = {"run_bot"}
  /\ in_flight = {}

\* An exception leaves wait_for_bot_completion and is caught by run_bot
\* (the caller says what becomes of data).
PollerRaises(e) ==
  /\ poll_out' = e
  /\ result' = RunBotExcept(e)
  /\ pc' = "done"
  /\ open_clients' = CloseClient(CloseClient(OpenClient(open_clients, "poller"),
                                             "poller"), "run_bot")
  /\ UNCHANGED <<final_result, state, intermediate_nodes, all_results,
                 node_log, node_results, in_flight>>

\* The head of the poll loop with loop variable a: the next fetch, or the
\* TimeoutError after the loop.
LoopHead(a) ==
  /\ attempt' = a
  /\ IF LoopContinues(a, max_retries)
       THEN /\ pc' = "fetch"
            /\ open_clients' = OpenClient(open_clients, "poller")
            /\ UNCHANGED <<poll_out, result, final_result, state,
                           intermediate_nodes, all_results, node_log,
                           node_results, in_flight>>
       ELSE PollerRaises(Raised("TimeoutError", NoneVal,
                                TimeoutSeconds(max_retries)))

\* response = await client.post(...); raise_for_status; execution["_id"];
\* then into wait_for_bot_completion up to its first await.
Launch(r) ==
  /\ pc = "launch"
  /\ UNCHANGED <<userVars, twoVars>>
  /\ UNCHANGED <<max_retries, status_log, sleeps, data>>
  /\ requests' = Append(requests, Request("launch", r.id, NoneVal))
  /\ IF r.kind = "ok"
       THEN /\ execution_id' = r.id
            /\ LoopHead(0)
       ELSE /\ result' = RunBotExcept(Raised(r.kind, NoneVal, 0))
            /\ pc' = "done"
            /\ open_clients' = CloseClient(open_clients, "run_bot")
            /\ UNCHANGED <<execution_id, attempt, poll_out, final_result,
                           state, intermediate_nodes, all_results, node_log,
                           node_results, in_flight>>

\* wait_for_bot_completion returned d: run_bot reads the state and the
\* results, filters the node names and enters get_node_results, which
\* returns at once for an empty list of names.
PollerReturns(d) ==
  /\ poll_out' = Returned
  /\ final_result' = d
  /\ state' = d.state
  /\ all_results' = GetResults(d)
  /\ intermediate_nodes' = filter_intermediate_nodes(GetResults(d))
  /\ UNCHANGED <<node_log, node_results>>
  /\ IF filter_intermediate_nodes(GetResults(d)) = <<>>
       THEN /\ result' = RunBotReturn(execution_id, d.state, <<>>, EmptyDict, d)
            /\ pc' = "done"
            /\ in_flight' = {}
            /\ open_clients' =
                 CloseClient(CloseClient(OpenClient(
                   CloseClient(open_clients, "poller"), "nodes"), "nodes"),
                   "run_bot")
       ELSE /\ pc' = "node"
            /\ in_flight' = IssuedAt(filter_intermediate_nodes(GetResults(d)), 0)
            /\ open_clients' =
                 OpenClient(CloseClient(open_clients, "poller"), "nodes")
            /\ UNCHANGED result

\* The branch of the loop body that sleeps: the iteration ends at
\* await asyncio.sleep(poll_interval).
GoToSleep ==
  /\ pc' = "sleep"
  /\ UNCHANGED <<poll_out, result, final_result, state, intermediate_nodes,
                 all_results, node_log, node_results, open_clients, in_flight>>

\* resp = await client.get(status_url); one iteration of the poll loop up
\* to its sleep, its return or its raise.
StatusFetch(r) ==
  /\ pc = "fetch"
  /\ UNCHANGED <<userVars, twoVars>>
  /\ status_log' = Append(status_log, Observed(r))
  /\ requests' = Append(requests, Request("status", execution_id, NoneVal))
  /\ UNCHANGED <<max_retries, execution_id, attempt, sleeps>>
  /\ IF r.kind # "ok"
       THEN /\ UNCHANGED data
            /\ IF PollerCatches(r.kind) THEN GoToSleep
               ELSE PollerRaises(Raised(r.kind, NoneVal, 0))
       ELSE /\ data' = r.body
            /\ LET st == EffectiveState(r.body) IN
               IF IsSuccess(st) THEN PollerReturns(r.body)
               ELSE IF IsFailed(st)
                 THEN PollerRaises(Raised("RuntimeError",
                                          FailureDetail(r.body), 0))
               ELSE IF IsInProgress(st) THEN GoToSleep
               ELSE GoToSleep

\* await asyncio.sleep(poll_interval) finished: the next iteration.
Sleep ==
  /\ pc = "sleep"
  /\ UNCHANGED <<userVars, twoVars>>
  /\ sleeps' = sleeps + 1
  /\ UNCHANGED <<max_retries, execution_id, status_log, data, requests>>
  /\ LoopHead(attempt + 1)

\* resp = await client.get(url) for the next node name: one iteration of
\* get_node_results' loop, and the rest of run_bot after the last one.
NodeFetch(r) ==
  /\ pc = "node"
  /\ UNCHANGED <<userVars, twoVars>>
  /\ LET name == intermediate_nodes[Len(node_log) + 1]
         nres == DictSet(node_results, name, NodeEntry(r))
     IN /\ node_log' = Append(node_log, [name |-> name, kind |-> r.kind])
        /\ requests' = Append(requests, Request("node", execution_id, name))
        /\ UNCHANGED <<max_retries, execution_id, attempt, status_log, sleeps,
                       data, final_result, poll_out, state, intermediate_nodes,
                       all_results>>
        /\ IF r.kind = "ok" \/ NodeCatches(r.kind)
             THEN /\ node_results' = nres
                  /\ IF Len(node_log) + 1 = Len(intermediate_nodes)
                       THEN /\ result' = RunBotReturn(execution_id, state,
                                           intermediate_nodes, nres,
                                           final_result)
                            /\ pc' = "done"
                            /\ in_flight' = {}
                            /\ open_clients' =
                                 CloseClient(CloseClient(open_clients, "nodes"),
                                             "run_bot")
                       ELSE /\ in_flight' = IssuedAt(intermediate_nodes,
                                                     Len(node_log) + 1)
                            /\ UNCHANGED <<result, pc, open_clients>>
             ELSE /\ result' = RunBotExcept(Raised(r.kind, NoneVal, 0))
                  /\ pc' = "done"
                  /\ in_flight' = {}
                  /\ open_clients' =
                       CloseClient(CloseClient(open_clients, "nodes"), "run_bot")
                  /\ UNCHANGED node_results

Next ==
  \/ \E r \in LaunchResponses : Launch(r)
  \/ \E r \in StatusResponses : StatusFetch(r)
  \/ Sleep
  \/ \E r \in NodeResponses : NodeFetch(r)

Spec == Init /\ [][Next]_vars

\* The caller abandons the call: asyncio.CancelledError is raised at the
\* await the coroutine is suspended at. No except clause of the three
\* functions matches it; every async with block it crosses is left.
Cancel ==
  /\ pc \in {"launch", "fetch", "sleep", "node"}
  /\ UNCHANGED <<userVars, twoVars>>
  /\ LET e == Raised("CancelledError", NoneVal, 0) IN
     /\ poll_out' = IF pc \in {"fetch", "sleep"} /\ ~PollerCatches(e.kind)
                      THEN e ELSE poll_out
     /\ result' = RunBotExcept(e)
  /\ pc' = "done"
  /\ in_flight' = {}
  /\ open_clients' =
       CloseClient(CloseClient(CloseClient(open_clients, "nodes"), "poller"),
                   "run_bot")
  /\ UNCHANGED <<max_retries, execution_id, attempt, status_log, sleeps, data,
                 final_result, state, intermediate_nodes, all_results,
                 node_log, node_results, requests>>

NextCancel == Next \/ Cancel

SpecCancel == Init /\ [][NextCancel]_vars

TypeOK ==
  /\ pc \in {"idle", "launch", "fetch", "sleep", "node", "done"}
  /\ max_retries \in 0..MaxRetries
  /\ attempt \in 0..MaxRetries

\* ------------------------------------------------------------ properties
\* The poller has ended (returned or raised).
PollerEnded == poll_out.kind # "none"
\* Every status fetch so far yielded RUNNING, PENDING or QUEUED.
AllInProgress == \A i \in 1..Len(status_log) : status_log[i] = "inprogress"
\* The first Len-1 fetches yielded an in-progress state.
InProgressBeforeLast ==
  \A i \in 1..(Len(status_log) - 1) : status_log[i] = "inprogress"
LastObserved == IF status_log = <<>> THEN "none"
                ELSE status_log[Len(status_log)]

\* C1: for every budget N >= 0, a poller whose status fetches all yield an
\* in-progress state makes exactly N fetches and then fails with the
\* TimeoutError (never ending any other way), and no execution makes more
\* than N status fetches.
C1_TimeoutAfterExactlyN ==
  /\ Len(status_log) <= max_retries
  /\ (PollerEnded /\ AllInProgress) =>
       /\ poll_out.kind = "TimeoutError"
       /\ Len(status_log) = max_retries
       /\ pc = "done"
  /\ poll_out.kind = "TimeoutError" =>
       /\ Len(status_log) = max_retries
       /\ poll_out.secs = max_retries * PollInterval
  /\ (status_log # <<>> /\ AllInProgress /\ ~PollerEnded) =>
       pc \in {"fetch", "sleep"}
C1_Witness ==
  /\ max_retries = 2
  /\ status_log = <<"inprogress", "inprogress">>
  /\ poll_out.kind = "TimeoutError"

\* C2: when the first k-1 status fetches yield an in-progress state and the
\* k-th yields SUCCEEDED or COMPLETED (1 <= k <= N), the poller returns the
\* snapshot of the k-th fetch after exactly k fetches, without a
\* TimeoutError and without a wait after the terminal observation.
C2_SuccessOnKthFetch ==
  (LastObserved = "success" /\ InProgressBeforeLast) =>
    /\ poll_out = Returned
    /\ final_result = data
    /\ PyOr(final_result.state, final_result.status) \in {"SUCCEEDED", "COMPLETED"}
    /\ Len(status_log) <= max_retries
    /\ attempt = Len(status_log) - 1
    /\ sleeps = Len(status_log) - 1
    /\ pc \in {"node", "done"}
    /\ result.exc # "TimeoutError"
C2_Witness ==
  /\ max_retries = 3
  /\ status_log = <<"inprogress", "inprogress", "success">>
  /\ poll_out = Returned
  /\ final_result.state = "COMPLETED"

\* C3: an httpx.HTTPError of a status fetch never ends the poller: it uses
\* up one attempt like any other fetch, is followed by one wait, and the
\* next attempt is made while budget remains; a failed fetch followed by a
\* later success makes the poller return.
C3_TransientFailureRetried ==
  /\ poll_out.kind # "HTTPError"
  /\ (poll_out.kind # "none" /\ status_log # <<>>) => result.exc # "HTTPError"
  /\ pc = "fetch" => (Len(status_log) = attempt /\ sleeps = attempt
                      /\ attempt < max_retries)
  /\ pc = "sleep" => (Len(status_log) = attempt + 1 /\ sleeps = attempt)
  /\ LastObserved = "HTTPError" =>
       \/ pc = "sleep" /\ ~PollerEnded
       \/ pc = "fetch" /\ ~PollerEnded /\ sleeps = Len(status_log)
       \/ /\ poll_out.kind = "TimeoutError"
          /\ Len(status_log) = max_retries /\ sleeps = max_retries
  /\ ((\E j \in 1..Len(status_log) : status_log[j] = "HTTPError")
        /\ LastObserved = "success") => poll_out = Returned
C3_Witness ==
  /\ status_log = <<"HTTPError", "success">>
  /\ poll_out = Returned
  /\ sleeps = 1

\* The remote reported FAILED on the last status fetch.
FailedObserved == LastObserved = "failed"
\* What follows a FAILED observation, whatever the error payload: the
\* poller raises the RuntimeError out of the loop at once, with no wait and
\* no further fetch, and nothing swallows it.
FailsImmediately ==
  /\ poll_out.kind = "RuntimeError"
  /\ pc = "done"
  /\ sleeps = Len(status_log) - 1
  /\ attempt = Len(status_log) - 1
  /\ result.kind = "error" /\ result.exc = "RuntimeError"
\* "failed" is never followed by another fetch.
NoFetchAfterFailed ==
  \A i \in 1..(Len(status_log) - 1) : status_log[i] # "failed"

\* C4 as stated: on FAILED the poller fails at once with the job-failed error
\* carrying the remote error payload, or the unknown-error marker when the
\* payload is absent; no retry. (Violated: a payload that is present but
\* empty is replaced by the marker. Stated for runs with a proper
\* execution identifier.)
C4_Original ==
  /\ NoFetchAfterFailed
  /\ (FailedObserved /\ execution_id = "exec1") =>
       /\ FailsImmediately
       /\ poll_out.detail = IF data.errors = NoneVal THEN "Unknown error"
                            ELSE data.errors
\* C4 (amended): on FAILED the poller fails at once with the job-failed error
\* carrying the remote error payload when that payload is non-empty, and the
\* unknown-error marker when the payload is absent or empty (falsy); it is
\* not retried: no wait and no further fetch follows, and the handler of
\* transient errors does not swallow it.
C4_FailedNotRetried ==
  /\ NoFetchAfterFailed
  /\ FailedObserved =>
       /\ FailsImmediately
       /\ data.errors \in {NoneVal, ""} => poll_out.detail = "Unknown error"
       /\ data.errors \notin {NoneVal, ""} => poll_out.detail = data.errors
C4_Witness ==
  /\ status_log = <<"inprogress", "failed">>
  /\ max_retries = 3
  /\ data.errors = ""
  /\ poll_out = Raised("RuntimeError", "Unknown error", 0)

\* C5 as stated: every completed call of run_bot returned a report or a
\* formatted error, never no value. (Violated: a success reported in the
\* "status" field only makes run_bot fall off its end and return None.
\* Stated for runs that did not launch with an empty identifier.)
C5_ReportOrError ==
  (pc = "done" /\ execution_id # "") => result.kind \in {"report", "error"}

\* C6: run_bot on a job that launched and was reported FAILED returns a
\* formatted error holding the message of the poller's RuntimeError, which
\* holds the remote error detail when the remote supplied one; it never
\* returns a report for that run.
C6_FailedGivesFormattedError ==
  (\E i \in 1..Len(status_log) : status_log[i] = "failed") =>
    /\ pc = "done"
    /\ result.kind = "error"
    /\ result.success = FALSE
    /\ result.exc = "RuntimeError"
    /\ result.detail = poll_out.detail
    /\ data.errors \notin {NoneVal, ""} => result.detail = data.errors
C6_Witness ==
  /\ execution_id = "exec1"
  /\ LastObserved = "failed"
  /\ data.errors = "boom"
  /\ result.kind = "error" /\ result.detail = "boom"

\* C7: a report with success = true is returned only with a final state of
\* SUCCEEDED or COMPLETED, and that state is the "state" tag of the last
\* status snapshot the poller received.
C7_ReportOnlyOnSuccessState ==
  (result.kind = "report" \/ result.success) =>
    /\ result.kind = "report" /\ result.success
    /\ result.state \in {"SUCCEEDED", "COMPLETED"}
    /\ result.state = data.state
    /\ result.full_execution_data = data
    /\ LastObserved = "success"
C7_Witness ==
  /\ result.kind = "report" /\ result.success
  /\ result.state = "COMPLETED"
  /\ Len(status_log) = 2

\* C8 as stated: a launch yields a non-empty execution identifier or fails,
\* so run_bot never issues a status fetch with an empty execution
\* identifier. (Violated: execution["_id"] is used unchecked, so a launch
\* response with "_id": "" is polled.)
C8_NoPollingWithEmptyId ==
  (pc = "fetch" \/ status_log # <<>>) => execution_id \notin {NoneVal, ""}

\* C9: get_node_results, when fetches fail only with network failures,
\* returns a map with exactly one entry per requested name: the payload for
\* a fetch that succeeded, an error marker for one that failed; a failing
\* step removes or prevents no other entry, and no step is fetched twice.
NodeNames == {intermediate_nodes[i] : i \in 1..Len(intermediate_nodes)}
OnlyNetworkFailures ==
  \A i \in 1..Len(node_log) : node_log[i].kind \in {"ok", "HTTPError"}
C9_OneEntryPerStep ==
  /\ Len(node_log) <= Len(intermediate_nodes)
  /\ \A i \in 1..Len(node_log) : node_log[i].name = intermediate_nodes[i]
  /\ \A i, j \in 1..Len(node_log) : i # j => node_log[i].name # node_log[j].name
  /\ OnlyNetworkFailures =>
       /\ DOMAIN node_results = {node_log[i].name : i \in 1..Len(node_log)}
       /\ \A i \in 1..Len(node_log) :
            node_results[node_log[i].name] =
              IF node_log[i].kind = "ok"
                THEN [kind |-> "payload", val |-> "payload"]
                ELSE [kind |-> "error", val |-> "http error"]
       /\ (poll_out = Returned /\ pc = "done") =>
            /\ DOMAIN node_results = NodeNames
            /\ Cardinality(DOMAIN node_results) = Len(intermediate_nodes)
            /\ result.kind = "report" => result.node_results = node_results
C9_Witness ==
  /\ pc = "done"
  /\ Len(node_log) = 2
  /\ node_log[1].kind = "HTTPError" /\ node_log[2].kind = "ok"
  /\ DOMAIN node_results = {"step1", "step2"}
  /\ result.kind = "report"

\* C10: filter_intermediate_nodes returns exactly the keys of the result
\* map other than "start" and "end", each once, in the order of the map,
\* and the empty sequence for an empty or absent map.
KeysOf(f) == {f.keys[i] : i \in 1..Len(f.keys)}
PositionIn(seq, k) == CHOOSE i \in 1..Len(seq) : seq[i] = k
C10_FilterExcludesSentinels ==
  /\ NodeNames = KeysOf(all_results) \ {"start", "end"}
  /\ Cardinality(NodeNames) = Len(intermediate_nodes)
  /\ \A i, j \in 1..Len(intermediate_nodes) :
       i < j => PositionIn(all_results.keys, intermediate_nodes[i])
                  < PositionIn(all_results.keys, intermediate_nodes[j])
  /\ (all_results.tag # "map" \/ all_results.keys = <<>>) =>
       intermediate_nodes = <<>>
C10_Witness ==
  /\ all_results = [tag |-> "map", keys |-> <<"step2", "start", "step1">>]
  /\ intermediate_nodes = <<"step2", "step1">>

\* ---------------------------------------------- properties of the whole run
RequestKinds == [i \in 1..Len(requests) |-> requests[i].kind]
\* The launch did not yield an identifier (non-2xx, network error, body
\* without "_id" or not JSON).
LaunchFailed == /\ requests # <<>>
                /\ requests[1].id = NoneVal
NodeFetchRaised ==
  \E i \in 1..Len(node_log) : node_log[i].kind \notin {"ok", "HTTPError"}

\* C11: no failure of a stage leaves run_bot as a raised fault: a failed
\* launch, a job reported FAILED, an exhausted attempt budget, a status
\* body that cannot be read and a failure that aborts the gathering of the
\* node results are each returned as one formatted error value; only the
\* cancellation of the call is raised to the caller.
C11_FailuresReturnedAsErrors ==
  /\ result.kind = "raised" => result.exc = "CancelledError"
  /\ (pc = "done" /\ result.exc # "CancelledError") =>
       /\ result.kind \in {"report", "error", "None"}
       /\ LaunchFailed =>
            (result.kind = "error"
               /\ result.exc \in {"HTTPError", "KeyError", "ValueError"})
       /\ LastObserved = "failed" =>
            (result.kind = "error" /\ result.exc = "RuntimeError")
       /\ (~LaunchFailed /\ sleeps = max_retries) =>
            (result.kind = "error" /\ result.exc = "TimeoutError")
       /\ LastObserved = "ValueError" =>
            (result.kind = "error" /\ result.exc = "ValueError")
       /\ NodeFetchRaised =>
            (result.kind = "error" /\ result.exc = "ValueError")
C11_Witness ==
  /\ pc = "done"
  /\ Len(node_log) = 2 /\ node_log[2].kind = "ValueError"
  /\ result.kind = "error" /\ result.exc = "ValueError"

\* C12: once a status fetch has returned SUCCEEDED, COMPLETED or FAILED, no
\* further status fetch is issued for that execution, by the poller or by
\* the rest of run_bot.
C12_NoFetchAfterTerminal ==
  /\ \A i \in 1..(Len(status_log) - 1) :
       status_log[i] \notin {"success", "failed"}
  /\ LastObserved \in {"success", "failed"} => pc \in {"node", "done"}
  /\ \A i, j \in 1..Len(requests) :
       (i < j /\ requests[i].kind = "node") => requests[j].kind = "node"
  /\ Cardinality({i \in 1..Len(requests) : requests[i].kind = "status"})
       = Len(status_log)
C12_Witness ==
  /\ pc = "done"
  /\ status_log = <<"inprogress", "success">>
  /\ Len(node_log) = 2

\* C13: run_bot launches, then polls, then fetches node results: a failed
\* launch is followed by no status fetch and no node fetch; a failed poll
\* (job FAILED or timeout) by no node fetch; node fetches are issued only
\* after a terminal success was observed; and no report is returned in a
\* run in which a stage failed.
C13_StagesInOrder ==
  /\ \A i \in 1..Len(requests) : (requests[i].kind = "launch") <=> (i = 1)
  /\ \A i, j \in 1..Len(requests) :
       (i < j /\ requests[i].kind = "node") => requests[j].kind = "node"
  /\ pc # "launch" => requests # <<>>
  /\ LaunchFailed => (Len(requests) = 1 /\ status_log = <<>> /\ node_log = <<>>
                      /\ pc = "done")
  /\ (LastObserved = "failed" \/ poll_out.kind \in {"TimeoutError", "RuntimeError"}) =>
       /\ node_log = <<>>
       /\ \A i \in 1..Len(requests) : requests[i].kind # "node"
       /\ poll_out.kind \in {"TimeoutError", "RuntimeError"}
       /\ result.kind = "error"
  /\ (node_log # <<>> \/ pc = "node") =>
       (LastObserved = "success" /\ poll_out = Returned)
  /\ result.kind = "report" =>
       /\ ~LaunchFailed
       /\ poll_out = Returned
       /\ ~NodeFetchRaised
       /\ Len(node_log) = Len(intermediate_nodes)
C13_Witness ==
  /\ pc = "done"
  /\ RequestKinds = <<"launch", "status", "status", "node", "node">>
  /\ result.kind = "report"

\* C14 as stated: one node-result fetch never raises: on a network failure
\* and on a response body that is no valid payload alike it yields an error
\* marker, and the batch goes on. (Violated: resp.json() raises a
\* ValueError that except httpx.HTTPError does not catch; the batch is
\* aborted. Stated for runs with a non-empty identifier.)
C14_StepFetchNeverRaises ==
  execution_id # "" =>
    /\ \A i \in 1..Len(node_log) :
         node_log[i].kind # "ok" =>
           /\ node_log[i].name \in DOMAIN node_results
           /\ node_results[node_log[i].name].kind = "error"
    /\ (pc = "done" /\ poll_out = Returned) =>
         Len(node_log) = Len(intermediate_nodes)

\* C15: a status response with an unrecognized state tag, or with none, is
\* neither a success nor a job failure: it uses up one attempt, the poller
\* waits one interval and goes on to the next attempt while budget remains.
C15_UnrecognizedIsTransient ==
  LastObserved = "unrecognized" =>
    /\ poll_out.kind \in {"none", "TimeoutError"}
    /\ result.kind \in {"none", "error"}
    /\ Len(status_log) <= max_retries
    /\ \/ /\ pc = "sleep"
          /\ attempt = Len(status_log) - 1 /\ sleeps = Len(status_log) - 1
       \/ /\ pc = "fetch"
          /\ attempt = Len(status_log) /\ sleeps = Len(status_log)
          /\ attempt < max_retries
       \/ /\ pc = "done" /\ poll_out.kind = "TimeoutError"
          /\ Len(status_log) = max_retries /\ sleeps = max_retries
C15_Witness ==
  /\ pc = "fetch"
  /\ status_log = <<"unrecognized">>
  /\ data.state = NoneVal /\ data.status = NoneVal
  /\ sleeps = 1

\* C16 as stated: the node fetches of a batch are issued concurrently, each
\* without waiting for the one before it, so that while the batch runs
\* every name of it is fetched or in flight. (Violated: the loop awaits
\* each fetch before it issues the next.)
FetchedNames == {node_log[i].name : i \in 1..Len(node_log)}
C16_Original ==
  (pc = "node" /\ execution_id = "exec1") =>
    \A i \in 1..Len(intermediate_nodes) :
      intermediate_nodes[i] \in in_flight \cup FetchedNames
\* C16 (amended): within get_node_results the fetches of a batch are issued
\* one at a time in the order of the list, each after the one before it has
\* finished, so at most one is in flight; and the function returns only
\* after every fetch of the batch has finished.
C16_SequentialFetches ==
  /\ Cardinality(in_flight) <= 1
  /\ pc = "node" =>
       /\ Len(node_log) < Len(intermediate_nodes)
       /\ in_flight = {intermediate_nodes[Len(node_log) + 1]}
       /\ in_flight \cap FetchedNames = {}
  /\ pc # "node" => in_flight = {}
  /\ (pc = "done" /\ poll_out = Returned /\ ~NodeFetchRaised) =>
       /\ Len(node_log) = Len(intermediate_nodes)
       /\ DOMAIN node_results = FetchedNames
C16_Witness ==
  /\ pc = "node"
  /\ intermediate_nodes = <<"step1", "step2">>
  /\ Len(node_log) = 1
  /\ in_flight = {"step2"}

\* C17: every httpx.AsyncClient opened by run_bot, wait_for_bot_completion
\* or get_node_results is released on every exit path (return, RuntimeError,
\* TimeoutError, any other exception, cancellation at a remote call or at a
\* wait): after the run has ended none is open, and while it runs only the
\* clients of the functions it is in are open.
C17_ClientsReleased ==
  /\ pc = "done" => open_clients = {}
  /\ pc = "launch" => open_clients = {"run_bot"}
  /\ pc \in {"fetch", "sleep"} => open_clients = {"run_bot", "poller"}
  /\ pc = "node" => open_clients = {"run_bot", "nodes"}
C17_Witness ==
  /\ pc = "done"
  /\ result.kind = "raised" /\ result.exc = "CancelledError"
  /\ Len(node_log) = 1
  /\ open_clients = {}

\* C19: in every report, the keys of node_results are the keys of the final
\* status's result map other than "start" and "end" (none for an absent
\* map), total_intermediate_nodes is their number, and execution_id is the
\* identifier the launch returned, used by every status and node fetch.
C19_ReportConsistent ==
  result.kind = "report" =>
    /\ DOMAIN result.node_results =
         KeysOf(result.full_execution_data.results) \ {"start", "end"}
    /\ result.full_execution_data.results.tag # "map" =>
         DOMAIN result.node_results = {}
    /\ result.total_intermediate_nodes =
         Cardinality(DOMAIN result.node_results)
    /\ requests[1].kind = "launch"
    /\ result.execution_id = requests[1].id
    /\ \A i \in 1..Len(requests) : requests[i].id = requests[1].id
    /\ \A n \in DOMAIN result.node_results :
         \E i \in 1..Len(requests) :
           requests[i] = Request("node", requests[1].id, n)
C19_Witness ==
  /\ result.kind = "report"
  /\ result.execution_id = "exec1"
  /\ result.total_intermediate_nodes = 2
  /\ result.full_execution_data.results.keys = <<"start", "step1", "step2">>

\* ------------------------------------------------------ the user registry
\* The single run of the first specification is not in progress.
NoSingleRun ==
  /\ pc = "idle"
  /\ max_retries = 0
  /\ execution_id = NoneVal
  /\ attempt = 0
  /\ status_log = <<>>
  /\ sleeps = 0
  /\ data = NoBody
  /\ final_result = NoBody
  /\ poll_out = NoOutcome
  /\ state = NoneVal
  /\ intermediate_nodes = <<>>
  /\ all_results = [tag |-> "absent", keys |-> <<>>]
  /\ node_log = <<>>
  /\ node_results = EmptyDict
  /\ result = NoResult
  /\ requests = <<>>
  /\ open_clients = {}
  /\ in_flight = {}
runVars == <<pc, max_retries, execution_id, attempt, status_log, sleeps, data,
             final_result, poll_out, state, intermediate_nodes, all_results,
             node_log, node_results, result, requests, open_clients, in_flight>>

\* Arguments of the registry tools. An id is the number of the uuid4 draw
\* that produced it; ids above uuids_issued were never issued.
UserIds == 1..MaxUsers
UserNames == {"ann", "bob"}
UserEmails == {"a@example.org"}
UserRoles == {"user", "admin"}

\* str(uuid.uuid4()): a value no earlier call has drawn.
NewUuid(issued) == issued + 1
\* A delete that removes nothing.
DictDel_Nothing(m, k) == m
\* del users_db[user_id]
DictDel(m, k) == [n \in DOMAIN m \ {k} |-> m[n]]
\* users_db.get(user_id) is None / user_id not in users_db
UserMissing(db, id) == id \notin DOMAIN db
\* if x is not None: user[field] = x
Updated(old, new) == IF new # NoneVal THEN new ELSE old
\* The outcome of a call, with what the properties need of its input.
Call(op, id, found, outcome, db, db2) ==
  [op |-> op, id |-> id, found |-> found, outcome |-> outcome,
   changed |-> db2 # db, count |-> Cardinality(DOMAIN db2)]

create_user(name, email, role) ==
  /\ uuids_issued < MaxUsers
  /\ LET user_id == NewUuid(uuids_issued)
         user == [id |-> user_id, name |-> name, email |-> email, role |-> role]
         db2 == DictSet(users_db, user_id, user)
     IN /\ users_db' = db2
        /\ uuids_issued' = user_id
        /\ created_ids' = created_ids \cup {user_id}
        /\ last_call' = Call("create_user", user_id, FALSE, "ok", users_db, db2)
  /\ UNCHANGED <<deleted_ids, runVars, twoVars>>

read_user(user_id) ==
  /\ last_call' = Call("read_user", user_id, user_id \in DOMAIN users_db,
                       IF UserMissing(users_db, user_id) THEN "ValueError"
                       ELSE "ok", users_db, users_db)
  /\ UNCHANGED <<users_db, uuids_issued, created_ids, deleted_ids, runVars, twoVars>>

list_users ==
  /\ last_call' = Call("list_users", 0, FALSE, "ok", users_db, users_db)
  /\ UNCHANGED <<users_db, uuids_issued, created_ids, deleted_ids, runVars, twoVars>>

update_user(user_id, name, email, role) ==
  /\ IF UserMissing(users_db, user_id)
       THEN /\ last_call' = Call("update_user", user_id,
                                 user_id \in DOMAIN users_db, "ValueError",
                                 users_db, users_db)
            /\ UNCHANGED users_db
       ELSE LET old == users_db[user_id]
                user == [old EXCEPT !.name = Updated(old.name, name),
                                    !.email = Updated(old.email, email),
                                    !.role = Updated(old.role, role)]
                db2 == DictSet(users_db, user_id, user)
            IN /\ users_db' = db2
               /\ last_call' = Call("update_user", user_id, TRUE, "ok",
                                    users_db, db2)
  /\ UNCHANGED <<uuids_issued, created_ids, deleted_ids, runVars, twoVars>>

delete_user(user_id) ==
  /\ IF UserMissing(users_db, user_id)
       THEN /\ last_call' = Call("delete_user", user_id,
                                 user_id \in DOMAIN users_db, "ValueError",
                                 users_db, users_db)
            /\ UNCHANGED <<users_db, deleted_ids>>
       ELSE LET db2 == DictDel(users_db, user_id)
            IN /\ users_db' = db2
               /\ deleted_ids' = deleted_ids \cup {user_id}
               /\ last_call' = Call("delete_user", user_id, TRUE, "ok",
                                    users_db, db2)
  /\ UNCHANGED <<uuids_issued, created_ids, runVars, twoVars>>

NextUsers ==
  \/ \E n \in UserNames, e \in UserEmails, r \in UserRoles : create_user(n, e, r)
  \/ \E id \in UserIds : read_user(id)
  \/ list_users
  \/ \E id \in UserIds, n \in UserNames \cup {NoneVal},
        e \in UserEmails \cup {NoneVal}, r \in UserRoles \cup {NoneVal} :
       update_user(id, n, e, r)
  \/ \E id \in UserIds : delete_user(id)

\* The server has started and no tool has been called.
InitRegistry ==
  /\ InitUsers
  /\ NoTwoRuns
  /\ NoSingleRun

SpecUsers == InitRegistry /\ [][NextUsers]_vars

\* C20: after any sequence of registry calls the registry holds exactly the
\* users created and not deleted since, each under the key equal to its id
\* field (which update_user never changes); read_user, update_user and
\* delete_user with an id that is not in the registry fail with the
\* not-found ValueError and leave the registry unchanged.
C20_RegistryConsistent ==
  /\ DOMAIN users_db = created_ids \ deleted_ids
  /\ created_ids = 1..uuids_issued
  /\ \A k \in DOMAIN users_db : users_db[k].id = k
  /\ (last_call.op \in {"read_user", "update_user", "delete_user"}
        /\ ~last_call.found) =>
       (last_call.outcome = "ValueError" /\ ~last_call.changed)
  /\ last_call.outcome = "ValueError" =>
       (~last_call.found /\ ~last_call.changed
          /\ last_call.op \in {"read_user", "update_user", "delete_user"})
  /\ last_call.op \in {"read_user", "list_users"} => ~last_call.changed
  /\ last_call.op = "list_users" =>
       last_call.count = Cardinality(created_ids \ deleted_ids)
C20_Witness ==
  /\ created_ids = {1, 2}
  /\ deleted_ids = {1}
  /\ DOMAIN users_db = {2}
  /\ users_db[2].role = "admin"
  /\ last_call.op = "update_user" /\ last_call.id = 1
  /\ last_call.outcome = "ValueError"

\* ------------------------------------------------- two interleaved runs
\* Two calls of run_bot on one event loop, interleaved at their awaits.
\* The remote creates one execution per launch and answers every fetch
\* about the execution whose identifier the request carries.
Runs == {1, 2}
ExecIds == {"exec1", "exec2"}
JobFinals == {"SUCCEEDED", "COMPLETED", "FAILED"}
\* The remote's next identifier, given those handed out so far.
NextExecId(given) == IF "exec1" \in given THEN "exec2" ELSE "exec1"
\* What distinguishes the answers about one execution from the other's.
StepOf(id) == IF id = "exec1" THEN "step1" ELSE "step2"
JobError(id) == IF id = "exec1" THEN "boom1" ELSE "boom2"
PayloadOf(id) == IF id = "exec1" THEN "payload1" ELSE "payload2"
\* The status body of a finished execution.
FinalBody(id, final) ==
  [state |-> final, status |-> NoneVal,
   errors |-> IF final = "FAILED" THEN JobError(id) ELSE NoneVal,
   results |-> IF final = "FAILED" THEN [tag |-> "absent", keys |-> <<>>]
               ELSE [tag |-> "map", keys |-> <<"start", StepOf(id), "end">>]]
RunningBody == [NoBody EXCEPT !.state = "RUNNING"]
\* The answers to a status fetch and to a node fetch for identifier id.
StatusAnswers(id, final) ==
  {[kind |-> "ok", body |-> RunningBody],
   [kind |-> "ok", body |-> FinalBody(id, final)],
   [kind |-> "HTTPError", body |-> NoBody]}
NodeAnswers(id) ==
  {[kind |-> "ok", val |-> PayloadOf(id)],
   [kind |-> "HTTPError", val |-> "http error"]}

\* The locals of one call of run_bot at its first await.
RunStart == [pc |-> "launch", execution_id |-> NoneVal, attempt |-> 0,
             final_result |-> NoBody, state |-> NoneVal,
             intermediate_nodes |-> <<>>, node_results |-> EmptyDict,
             fetched |-> 0, result |-> NoResult]

\* A module-level identifier that the latest launch overwrites.
RunExecutionId_Shared(rs, i) ==
  IF \E j \in Runs : rs[j].execution_id = "exec2" THEN "exec2"
  ELSE rs[i].execution_id
\* execution_id, a local of run_bot passed by value to both helpers.
RunExecutionId(rs, i) == rs[i].execution_id

\* The head of the poll loop with loop variable a.
AtLoopHead(s, a) ==
  IF LoopContinues(a, TwoRunRetries)
    THEN [s EXCEPT !.attempt = a, !.pc = "fetch"]
    ELSE [s EXCEPT !.attempt = a, !.pc = "done",
                   !.result = RunBotExcept(Raised("TimeoutError", NoneVal,
                                           TimeoutSeconds(TwoRunRetries)))]
\* execution_id = execution["_id"], then into the poller.
AfterLaunch(s, id) == AtLoopHead([s EXCEPT !.execution_id = id], 0)
\* run_bot from the return of the poller to its next await or its return.
AfterPoll(s, d) ==
  LET nodes == filter_intermediate_nodes(GetResults(d))
      t == [s EXCEPT !.final_result = d, !.state = d.state,
                     !.intermediate_nodes = nodes]
  IN IF nodes = <<>>
       THEN [t EXCEPT !.pc = "done",
                      !.result = RunBotReturn(s.execution_id, d.state, <<>>,
                                              EmptyDict, d)]
       ELSE [t EXCEPT !.pc = "node"]
\* One iteration of the poll loop on the answer r.
AfterStatus(s, r) ==
  IF r.kind # "ok"
    THEN IF PollerCatches(r.kind) THEN [s EXCEPT !.pc = "sleep"]
         ELSE [s EXCEPT !.pc = "done",
                        !.result = RunBotExcept(Raised(r.kind, NoneVal, 0))]
    ELSE LET st == EffectiveState(r.body) IN
         IF IsSuccess(st) THEN AfterPoll(s, r.body)
         ELSE IF IsFailed(st)
           THEN [s EXCEPT !.pc = "done",
                          !.result = RunBotExcept(Raised("RuntimeError",
                                                  FailureDetail(r.body), 0))]
         ELSE [s EXCEPT !.pc = "sleep"]
\* One iteration of get_node_results' loop on the answer r.
AfterNode(s, r) ==
  LET name == s.intermediate_nodes[s.fetched + 1]
      nres == DictSet(s.node_results, name, NodeEntry(r))
  IN IF r.kind = "ok" \/ NodeCatches(r.kind)
       THEN IF s.fetched + 1 = Len(s.intermediate_nodes)
              THEN [s EXCEPT !.node_results = nres, !.fetched = @ + 1,
                             !.pc = "done",
                             !.result = RunBotReturn(s.execution_id, s.state,
                                          s.intermediate_nodes, nres,
                                          s.final_result)]
              ELSE [s EXCEPT !.node_results = nres, !.fetched = @ + 1]
       ELSE [s EXCEPT !.pc = "done", !.fetched = @ + 1,
                      !.result = RunBotExcept(Raised(r.kind, NoneVal, 0))]

InitTwo ==
  /\ InitUsers
  /\ NoSingleRun
  /\ runs = [i \in Runs |-> RunStart]
  /\ jobs \in [ExecIds -> JobFinals]
  /\ launched = [i \in Runs |-> NoneVal]

\* The launch response of run i arrives.
TwoLaunch(i) ==
  /\ runs[i].pc = "launch"
  /\ LET id == NextExecId({launched[j] : j \in Runs}) IN
     /\ launched' = [launched EXCEPT ![i] = id]
     /\ runs' = [runs EXCEPT ![i] = AfterLaunch(@, id)]
  /\ UNCHANGED <<jobs, runVars, userVars>>

\* The answer to the status fetch of run i arrives.
TwoStatusFetch(i) ==
  /\ runs[i].pc = "fetch"
  /\ LET id == RunExecutionId(runs, i) IN
     \E r \in StatusAnswers(id, jobs[id]) :
       runs' = [runs EXCEPT ![i] = AfterStatus(@, r)]
  /\ UNCHANGED <<jobs, launched, runVars, userVars>>

\* The sleep of run i is over.
TwoSleep(i) ==
  /\ runs[i].pc = "sleep"
  /\ runs' = [runs EXCEPT ![i] = AtLoopHead(@, @.attempt + 1)]
  /\ UNCHANGED <<jobs, launched, runVars, userVars>>

\* The answer to the node fetch of run i arrives.
TwoNodeFetch(i) ==
  /\ runs[i].pc = "node"
  /\ \E r \in NodeAnswers(RunExecutionId(runs, i)) :
       runs' = [runs EXCEPT ![i] = AfterNode(@, r)]
  /\ UNCHANGED <<jobs, launched, runVars, userVars>>

NextTwo ==
  \/ \E i \in Runs : TwoLaunch(i)
  \/ \E i \in Runs : TwoStatusFetch(i)
  \/ \E i \in Runs : TwoSleep(i)
  \/ \E i \in Runs : TwoNodeFetch(i)

SpecTwo == InitTwo /\ [][NextTwo]_vars

\* C18: two interleaved runs share no mutable state: the identifier, the
\* status snapshot, the list of node names and the result map of a run are
\* those of the execution that run launched, whatever the other run does,
\* and the value the run returns is decided by the answers about its own
\* execution alone.
OwnExecution(i) ==
  LET s == runs[i]
      id == launched[i]
      own == FinalBody(id, jobs[id])
  IN /\ s.execution_id = id
     /\ s.pc # "launch" => id \in ExecIds
     /\ id \in ExecIds =>
          /\ s.final_result \in {NoBody, own}
          /\ s.state \in {NoneVal, jobs[id]}
          /\ s.intermediate_nodes \in {<<>>, <<StepOf(id)>>}
          /\ DOMAIN s.node_results \subseteq {StepOf(id)}
          /\ \A n \in DOMAIN s.node_results :
               s.node_results[n] \in
                 {[kind |-> "payload", val |-> PayloadOf(id)],
                  [kind |-> "error", val |-> "http error"]}
          /\ s.result.kind = "report" =>
               /\ jobs[id] \in {"SUCCEEDED", "COMPLETED"}
               /\ s.result.execution_id = id
               /\ s.result.state = jobs[id]
               /\ s.result.full_execution_data = own
               /\ s.result.node_results = s.node_results
               /\ DOMAIN s.result.node_results = {StepOf(id)}
          /\ s.result.kind = "error" =>
               \/ /\ s.result.exc = "RuntimeError"
                  /\ jobs[id] = "FAILED"
                  /\ s.result.detail = JobError(id)
               \/ /\ s.result.exc = "TimeoutError"
                  /\ s.attempt = TwoRunRetries
          /\ s.pc = "done" => s.result.kind \in {"report", "error"}
C18_RunsIndependent ==
  /\ \A i \in Runs : OwnExecution(i)
  /\ \A i, j \in Runs :
       (i # j /\ launched[i] # NoneVal) => launched[i] # launched[j]
C18_Witness ==
  /\ launched = <<"exec2", "exec1">>
  /\ jobs["exec1"] = "FAILED" /\ jobs["exec2"] = "COMPLETED"
  /\ runs[1].result.kind = "report"
  /\ runs[1].result.node_results["step2"].val = "payload2"
  /\ runs[2].result.kind = "error" /\ runs[2].result.detail = "boom1"

====
